---- MODULE Spec2Model ----
(***************************************************************************)
(* girder-nlisim: the run executor (girder_nlisim/tasks.py), the experiment *)
(* status/progress aggregation (girder_nlisim/plugin.py, models.py) and the *)
(* experiment and simulation requests (girder_nlisim/api.py).               *)
(*                                                                         *)
(* The specifications share the variables:                                 *)
(*   Spec / SpecFair : one run of run_simulation against its job, with a   *)
(*                     user who may cancel the job and calls that may fail *)
(*   SpecAgg         : one experiment, its children being registered and   *)
(*                     their job-update events handled by update_status    *)
(*   SpecRetry       : the executor's requests to the server, their        *)
(*                     clients and the retrying transport                  *)
(*   SpecCreate      : run_experiment / execute_simulation creating their  *)
(*                     records step by step, and cancel_experiment         *)
(*   SpecExpand      : the expansion of a configuration document into its  *)
(*                     concrete configurations                             *)
(*   SpecNames       : the names run_experiment gives to its runs          *)
(*   SpecSummary     : the summary of a stored experiment, as json and as  *)
(*                     csv                                                 *)
(*   SpecFilter      : the listing of simulations with a configuration     *)
(*                     filter                                              *)
(***************************************************************************)
EXTENDS Integers, Sequences, FiniteSets, TLC

\* ---------------------------------------------------------------- bounds
\* number of states the simulation engine may yield in one run
MaxStates == 3
\* number of child simulations of the experiment
NumSims == 2
\* number of job updates the children's jobs receive in all
MaxEvents == 4
\* simulated time advances in multiples of TimeUnit, up to MaxTicks of them
TimeUnit == 15
MaxTicks == 4

\* ------------------------------------------------------------ job status
\* girder_jobs.constants.JobStatus as used by the sources
INACTIVE == "INACTIVE"
QUEUED == "QUEUED"
RUNNING == "RUNNING"
SUCCESS == "SUCCESS"
ERROR == "ERROR"
CANCELED == "CANCELED"
JobStatus == {INACTIVE, QUEUED, RUNNING, SUCCESS, ERROR, CANCELED}
Terminal == {SUCCESS, ERROR, CANCELED}

\* ------------------------------------------------------------- executor
\* run_simulation(..., visualize_interval: float = 30)
visualize_interval == 30
\* target_time of the run (config simulation.run_time)
target_time == TimeUnit * MaxTicks
Times == {TimeUnit * k : k \in 0..MaxTicks}
\* previous_time = float('-inf'): a finite stand-in below every sum the
\* comparison current_time >= visualize_interval + previous_time can see
NegInf == 0 - (visualize_interval + target_time + 1)

VARIABLES
    pc,             \* position of run_simulation
    job,            \* the job record: status and progress (current, total)
    complete,       \* simulation['nli']['complete']
    configUploaded, \* config.ini uploaded to the simulation folder
    ckpts,          \* checkpoint folders of the simulation, in creation order
    engCount,       \* states the engine has yielded so far
    stateTime,      \* state.time of the state the loop holds
    current_time,
    previous_time,
    time_step,
    exc,            \* the exception being handled / propagated
    failedAt,       \* history: the executor's position when exc was raised
    log,            \* history: the executor's calls, in order
    cancelPc,       \* history: the executor's position when the job was canceled
    \* --- aggregation (SpecAgg)
    expDb,          \* the stored experiment record
    expMem,         \* run_experiment's in-memory experiment_folder
    simDb,          \* the stored simulation records
    jobs,           \* the children's job records
    handler,        \* update_status invocations in flight, one per child
    registered,     \* number of children registered so far
    dispatched,     \* number of children whose run task was dispatched
    events,         \* number of job updates so far
    lastSave,       \* history: which code saved the experiment record last
    lateRegistration, \* history: a child was registered after an update was handled
    reported,       \* history: the last job state handled per child
    \* --- requests of the executor to the server (SpecRetry)
    clients,        \* the GirderClient objects created so far, in order
    call,           \* the executor's call in progress and its request
    calls,          \* number of calls made so far
    \* --- experiment requests (SpecCreate)
    req,            \* run_experiment: its position and local variables
    store,          \* the experiment, simulation and job records and the queue
    cancelExp       \* cancel_experiment: its outcome

execVars == <<pc, job, complete, configUploaded, ckpts, engCount, stateTime,
              current_time, previous_time, time_step, exc, failedAt, log,
              cancelPc>>
aggVars == <<expDb, expMem, simDb, jobs, handler, registered, dispatched, events,
             lastSave, lateRegistration, reported>>
httpVars == <<clients, call, calls>>
createVars == <<req, store, cancelExp>>
vars == <<execVars, aggVars, httpVars, createVars>>

Exited == {"returned", "raised"}

\* one entry of the history: the call, where in run_simulation it was made,
\* its status and progress arguments, whether it succeeded (for a poll:
\* whether it saw the job canceled; for a handled state: whether the
\* checkpoint test passed) and why it failed
Ev(ev, st, t, tot, ok, cause) ==
    [ev |-> ev, at |-> pc, st |-> st, t |-> t, tot |-> tot, ok |-> ok, cause |-> cause]

\* GirderConfig.set_status: "This call will fail if the current job status is
\* CANCELED"; fault is any other failure of the request
SetStatusOkOverwrite(fault) == ~fault
SetStatusOk(fault) == ~fault /\ job.status # CANCELED

StatusCause(fault) ==
    IF job.status = CANCELED THEN "canceled" ELSE IF fault THEN "fault" ELSE "none"

\* the effect of one set_status call on the job and on the history
set_status(status, current, total, fault) ==
    /\ job' = IF SetStatusOk(fault)
              THEN [status |-> status, current |-> current, total |-> total]
              ELSE job
    /\ log' = Append(log, Ev("status", status, current, total, SetStatusOk(fault),
                              StatusCause(fault)))

\* GirderConfig.is_cancelled
is_cancelled == job.status = CANCELED

\* the body of the for loop over run_iterator, once a state is obtained
LoopBodyNoPoll == <<"handle">>
LoopBody == <<"poll", "handle">>

\* the order of the side effects of one checkpoint
CheckpointStepsStatusFirst == <<"ckpt_status", "upload", "upload_files">>
CheckpointSteps == <<"upload", "upload_files", "ckpt_status">>

\* the order of the side effects after the loop
FinalStepsStatusFirst == <<"set_success", "finalize">>
FinalSteps == <<"finalize", "set_success">>

IndexOf(seq, x) == CHOOSE i \in 1..Len(seq) : seq[i] = x
After(seq, x, done) ==
    IF IndexOf(seq, x) = Len(seq) THEN done ELSE seq[IndexOf(seq, x) + 1]

\* a test that needs more than the interval
CheckpointDueStrict(cur, prev) == cur > visualize_interval + prev
\* if current_time >= visualize_interval + previous_time
CheckpointDue(cur, prev) == cur >= visualize_interval + prev

InitExec ==
    /\ pc = "init"
    /\ job = [status |-> INACTIVE, current |-> 0, total |-> 0]
    /\ complete = FALSE
    /\ configUploaded = FALSE
    /\ ckpts = <<>>
    /\ engCount = 0
    /\ stateTime = 0
    /\ current_time = 0
    /\ previous_time = NegInf
    /\ time_step = 0
    /\ exc = "none"
    /\ failedAt = "none"
    /\ log = <<>>
    /\ cancelPc = "none"

\* raise inside the try block: control goes to the except clause
Raise(what) ==
    /\ pc' = "error"
    /\ exc' = what
    /\ failedAt' = pc

\* girder_config.initialize: get the simulation folder, upload config.ini
Initialize ==
    /\ pc = "init"
    /\ \/ /\ configUploaded' = TRUE
          /\ pc' = "set_running"
          /\ UNCHANGED <<exc, failedAt>>
       \/ /\ configUploaded' \in BOOLEAN
          /\ Raise("initialize")
    /\ UNCHANGED <<job, complete, ckpts, engCount, stateTime, current_time,
                   previous_time, time_step, log, cancelPc, aggVars, httpVars, createVars>>

\* an initial status update whose failure is raised like any other
SetRunningRaise ==
    /\ pc = "set_running"
    /\ \E fault \in BOOLEAN :
         /\ set_status(RUNNING, current_time, target_time, fault)
         /\ IF SetStatusOk(fault)
            THEN /\ pc' = "next"
                 /\ UNCHANGED <<exc, failedAt>>
            ELSE Raise("set_status")
    /\ time_step' = 0
    /\ previous_time' = NegInf
    /\ UNCHANGED <<complete, configUploaded, ckpts, engCount, stateTime,
                   current_time, cancelPc, aggVars, httpVars, createVars>>

\* the initial set_status(RUNNING, current_time, target_time)
SetRunning ==
    /\ pc = "set_running"
    /\ \E fault \in BOOLEAN :
         /\ set_status(RUNNING, current_time, target_time, fault)
         /\ pc' = IF SetStatusOk(fault) THEN "next" ELSE "returned"
    /\ time_step' = 0
    /\ previous_time' = NegInf
    /\ UNCHANGED <<complete, configUploaded, ckpts, engCount, stateTime,
                   current_time, exc, failedAt, cancelPc, aggVars, httpVars, createVars>>

\* for state, status in run_iterator(...): the request for the next state
NextState ==
    /\ pc = "next"
    /\ \/ /\ engCount < MaxStates
          /\ \E t \in Times :
               /\ t >= stateTime
               /\ stateTime' = t
          /\ engCount' = engCount + 1
          /\ pc' = LoopBody[1]
          /\ log' = Append(log, Ev("advance", "-", stateTime', target_time, TRUE, "none"))
          /\ UNCHANGED <<exc, failedAt>>
       \/ /\ pc' = FinalSteps[1]
          /\ UNCHANGED <<stateTime, engCount, log, exc, failedAt>>
       \/ /\ Raise("engine")
          /\ UNCHANGED <<stateTime, engCount, log>>
    /\ UNCHANGED <<job, complete, configUploaded, ckpts, current_time,
                   previous_time, time_step, cancelPc, aggVars, httpVars, createVars>>

\* a poll whose result does not end the loop
PollContinue ==
    /\ pc = "poll"
    /\ \/ /\ pc' = After(LoopBody, "poll", "next")
          /\ log' = Append(log, Ev("poll", "-", stateTime, target_time, is_cancelled, "none"))
          /\ UNCHANGED <<exc, failedAt>>
       \/ /\ Raise("is_cancelled")
          /\ UNCHANGED log
    /\ UNCHANGED <<job, complete, configUploaded, ckpts, engCount, stateTime,
                   current_time, previous_time, time_step, cancelPc, aggVars, httpVars, createVars>>

\* if girder_config.is_cancelled(job['_id']): return simulation
Poll ==
    /\ pc = "poll"
    /\ \/ /\ pc' = IF is_cancelled THEN "returned" ELSE After(LoopBody, "poll", "next")
          /\ log' = Append(log, Ev("poll", "-", stateTime, target_time, is_cancelled, "none"))
          /\ UNCHANGED <<exc, failedAt>>
       \/ /\ Raise("is_cancelled")
          /\ UNCHANGED log
    /\ UNCHANGED <<job, complete, configUploaded, ckpts, engCount, stateTime,
                   current_time, previous_time, time_step, cancelPc, aggVars, httpVars, createVars>>

\* a loop body that does not record the time of the checkpoint it makes
HandleKeepPrevious ==
    /\ pc = "handle"
    /\ current_time' = stateTime
    /\ pc' = IF CheckpointDue(current_time', previous_time)
             THEN CheckpointSteps[1] ELSE "next"
    /\ log' = Append(log, Ev("handle", "-", stateTime, target_time,
                              CheckpointDue(current_time', previous_time), "none"))
    /\ UNCHANGED <<job, complete, configUploaded, ckpts, engCount, stateTime,
                   previous_time, time_step, exc, failedAt, cancelPc, aggVars,
                   httpVars, createVars>>

\* current_time = state.time and the checkpoint test
Handle ==
    /\ pc = "handle"
    /\ current_time' = stateTime
    /\ IF CheckpointDue(current_time', previous_time)
       THEN /\ previous_time' = current_time'
            /\ pc' = CheckpointSteps[1]
       ELSE /\ previous_time' = previous_time
            /\ pc' = "next"
    /\ log' = Append(log, Ev("handle", "-", stateTime, target_time,
                              CheckpointDue(current_time', previous_time), "none"))
    /\ UNCHANGED <<job, complete, configUploaded, ckpts, engCount, stateTime,
                   time_step, exc, failedAt, cancelPc, aggVars, httpVars, createVars>>

\* GirderConfig.upload: createFolder and addMetadataToFolder
UploadCreate ==
    /\ pc = "upload"
    /\ \/ /\ ckpts' = Append(ckpts, [time |-> current_time, files |-> FALSE])
          /\ pc' = After(CheckpointSteps, "upload", "next")
          /\ UNCHANGED <<exc, failedAt>>
       \/ /\ Raise("upload")
          /\ UNCHANGED ckpts
    /\ UNCHANGED <<job, complete, configUploaded, engCount, stateTime,
                   current_time, previous_time, time_step, log, cancelPc, aggVars, httpVars, createVars>>

\* GirderConfig.upload: uploadFileToFolder for the files of the checkpoint
UploadFiles ==
    /\ pc = "upload_files"
    /\ \/ /\ ckpts' = [ckpts EXCEPT ![Len(ckpts)].files = TRUE]
          /\ pc' = After(CheckpointSteps, "upload_files", "next")
          /\ log' = Append(log, Ev("upload", "-", current_time, target_time, TRUE, "none"))
          /\ UNCHANGED <<exc, failedAt>>
       \/ /\ Raise("upload")
          /\ UNCHANGED <<ckpts, log>>
    /\ UNCHANGED <<job, complete, configUploaded, engCount, stateTime,
                   current_time, previous_time, time_step, cancelPc, aggVars, httpVars, createVars>>

\* the checkpoint's set_status(RUNNING, current_time, target_time)
CheckpointStatus ==
    /\ pc = "ckpt_status"
    /\ \E fault \in BOOLEAN :
         /\ set_status(RUNNING, current_time, target_time, fault)
         /\ IF SetStatusOk(fault)
            THEN /\ pc' = After(CheckpointSteps, "ckpt_status", "next")
                 /\ time_step' = time_step + 1
            ELSE /\ pc' = "returned"
                 /\ time_step' = time_step
    /\ UNCHANGED <<complete, configUploaded, ckpts, engCount, stateTime,
                   current_time, previous_time, exc, failedAt, cancelPc, aggVars, httpVars, createVars>>

\* girder_config.finalize -> mark_simulation_complete -> setSimulationComplete
Finalize ==
    /\ pc = "finalize"
    /\ \/ /\ complete' = TRUE
          /\ pc' = After(FinalSteps, "finalize", "returned")
          /\ log' = Append(log, Ev("finalize", "-", current_time, target_time, TRUE, "none"))
          /\ UNCHANGED <<exc, failedAt>>
       \/ /\ Raise("finalize")
          /\ UNCHANGED <<complete, log>>
    /\ UNCHANGED <<job, configUploaded, ckpts, engCount, stateTime,
                   current_time, previous_time, time_step, cancelPc, aggVars, httpVars, createVars>>

\* set_status(SUCCESS, target_time, target_time), not guarded by a try
SetSuccess ==
    /\ pc = "set_success"
    /\ \E fault \in BOOLEAN :
         /\ set_status(SUCCESS, target_time, target_time, fault)
         /\ IF SetStatusOk(fault)
            THEN /\ pc' = After(FinalSteps, "set_success", "returned")
                 /\ UNCHANGED <<exc, failedAt>>
            ELSE Raise("set_status")
    /\ UNCHANGED <<complete, configUploaded, ckpts, engCount, stateTime,
                   current_time, previous_time, time_step, cancelPc, aggVars, httpVars, createVars>>

\* a handler that lets the failure of the ERROR update replace the original
HandleErrorEscalate ==
    /\ pc = "error"
    /\ \E fault \in BOOLEAN :
         /\ set_status(ERROR, current_time, target_time, fault)
         /\ exc' = IF SetStatusOk(fault) THEN exc ELSE "set_status(ERROR)"
    /\ pc' = "raised"
    /\ UNCHANGED <<complete, configUploaded, ckpts, engCount, stateTime,
                   current_time, previous_time, time_step, failedAt, cancelPc,
                   aggVars, httpVars, createVars>>

\* a handler that re-raises without reporting ERROR
HandleErrorNoUpdate ==
    /\ pc = "error"
    /\ pc' = "raised"
    /\ UNCHANGED <<job, complete, configUploaded, ckpts, engCount, stateTime,
                   current_time, previous_time, time_step, exc, failedAt, log,
                   cancelPc, aggVars, httpVars, createVars>>

\* except Exception: try set_status(ERROR, ...) except: log; raise
HandleError ==
    /\ pc = "error"
    /\ \E fault \in BOOLEAN :
         set_status(ERROR, current_time, target_time, fault)
    /\ pc' = "raised"
    /\ UNCHANGED <<complete, configUploaded, ckpts, engCount, stateTime,
                   current_time, previous_time, time_step, exc, failedAt, cancelPc, aggVars, httpVars, createVars>>

\* NLI._cancel_simulation: job_model.cancelJob(job), from a user's request
Cancel ==
    /\ pc # "off"
    /\ job.status \in {INACTIVE, QUEUED, RUNNING}
    /\ job' = [job EXCEPT !.status = CANCELED]
    /\ cancelPc' = pc
    /\ UNCHANGED <<pc, complete, configUploaded, ckpts, engCount, stateTime,
                   current_time, previous_time, time_step, exc, failedAt, log,
                   aggVars, httpVars, createVars>>

\* ======================================================================
\* Experiment aggregation: simulation_runner and update_status
\* ======================================================================
Sims == 1..NumSims
\* the progress values the children's jobs report
AggTimes == {0, target_time \div 2, target_time}

\* exact arithmetic on non-negative fractions <<numerator, denominator>>
RECURSIVE Gcd(_, _)
Gcd(a, b) == IF b = 0 THEN a ELSE Gcd(b, a % b)
Rat(n, d) == <<n \div Gcd(n, d), d \div Gcd(n, d)>>
RatAdd(p, q) == Rat(p[1] * q[2] + q[1] * p[2], p[2] * q[2])
RatDiv(p, k) == Rat(p[1], p[2] * k)
Zero == Rat(0, 1)

\* dict assignment d[k] = v
Put(d, k, v) == [x \in (DOMAIN d) \cup {k} |-> IF x = k THEN v ELSE d[x]]

\* simulation['nli']['progress'] = 100 * (progress['current'] / progress['total'])
SimProgress(current, total) == Rat(100 * current, total)

\* sum(per_sim_progress.values()) / len(per_sim_progress)
RECURSIVE SumValues(_, _)
SumValues(d, keys) ==
    IF keys = {} THEN Zero
    ELSE LET k == CHOOSE k \in keys : TRUE
         IN RatAdd(d[k], SumValues(d, keys \ {k}))
\* a total that is not divided by the number of children
SumProgress(d) == SumValues(d, DOMAIN d)
MeanProgress(d) == RatDiv(SumValues(d, DOMAIN d), Cardinality(DOMAIN d))

\* any(status == st for status in per_sim_status.values())
AnyStatus(d, st) == \E k \in DOMAIN d : d[k] = st

\* a cascade that tests CANCELED before ERROR
AggregateStatusCanceledFirst(d) ==
    IF AnyStatus(d, CANCELED) THEN CANCELED
    ELSE IF AnyStatus(d, ERROR) THEN ERROR
    ELSE IF AnyStatus(d, INACTIVE) THEN INACTIVE
    ELSE IF AnyStatus(d, QUEUED) THEN QUEUED
    ELSE IF AnyStatus(d, RUNNING) THEN RUNNING
    ELSE SUCCESS

\* the if / elif cascade of update_status
AggregateStatus(d) ==
    IF AnyStatus(d, ERROR) THEN ERROR
    ELSE IF AnyStatus(d, CANCELED) THEN CANCELED
    ELSE IF AnyStatus(d, INACTIVE) THEN INACTIVE
    ELSE IF AnyStatus(d, QUEUED) THEN QUEUED
    ELSE IF AnyStatus(d, RUNNING) THEN RUNNING
    ELSE SUCCESS

\* Experiment.createExperiment: folder['nli']
NewExperiment ==
    [component_simulations |-> <<>>,
     progress |-> Zero,
     per_sim_progress |-> <<>>,
     per_sim_status |-> <<>>,
     status |-> INACTIVE]

\* Simulation.createSimulation: folder['nli']
NewSimulation == [exists |-> TRUE, progress |-> Zero, status |-> INACTIVE, job_id |-> 0]
NoSimulation == [exists |-> FALSE, progress |-> Zero, status |-> INACTIVE, job_id |-> 0]

\* job_model.createJob: INACTIVE, no progress yet (total 0 stands for None)
NewJob == [status |-> INACTIVE, current |-> 0, total |-> 0]

Idle == [pc |-> "idle", job |-> NewJob, progress |-> Zero, exp |-> NewExperiment]
NotReported == [seen |-> FALSE, status |-> INACTIVE, progress |-> Zero]

InitExecOff ==
    /\ pc = "off"
    /\ job = NewJob
    /\ complete = FALSE
    /\ configUploaded = FALSE
    /\ ckpts = <<>>
    /\ engCount = 0
    /\ stateTime = 0
    /\ current_time = 0
    /\ previous_time = NegInf
    /\ time_step = 0
    /\ exc = "none"
    /\ failedAt = "none"
    /\ log = <<>>
    /\ cancelPc = "none"

\* no request of the executor and no experiment request is in progress
InitHttpOff ==
    /\ clients = <<>>
    /\ call = [pc |-> "off", op |-> "-", client |-> 0, attempts |-> 0, response |-> 0]
    /\ calls = 0

InitCreateOff ==
    /\ req = [kind |-> "none", pc |-> "off"]
    /\ store = [experiments |-> 0, component_simulations |-> <<>>, simulations |-> <<>>,
               jobs |-> <<>>, queue |-> <<>>]
    /\ cancelExp = [pc |-> "off"]

\* run_experiment after createExperiment: the record is stored, no child yet
InitAgg ==
    /\ InitExecOff
    /\ InitHttpOff
    /\ InitCreateOff
    /\ expDb = NewExperiment
    /\ expMem = NewExperiment
    /\ simDb = [c \in Sims |-> NoSimulation]
    /\ jobs = [c \in Sims |-> NewJob]
    /\ handler = [c \in Sims |-> Idle]
    /\ registered = 0
    /\ dispatched = 0
    /\ events = 0
    /\ lastSave = "createExperiment"
    /\ lateRegistration = FALSE
    /\ reported = [c \in Sims |-> NotReported]

\* the experiment record with child c added at INACTIVE / 0.0
WithChild(exp, c) ==
    [exp EXCEPT !.component_simulations = Append(@, c),
                !.per_sim_progress = Put(@, c, Zero),
                !.per_sim_status = Put(@, c, INACTIVE)]

\* a registration that re-reads the stored record before adding the child
RegisterChildReload ==
    /\ registered < NumSims
    /\ dispatched = registered
    /\ registered' = registered + 1
    /\ simDb' = [simDb EXCEPT ![registered'] = NewSimulation]
    /\ expMem' = WithChild(expDb, registered')
    /\ expDb' = expMem'
    /\ lastSave' = "simulation_runner"
    /\ lateRegistration' = (lateRegistration \/ \E c \in Sims : reported[c].seen)
    /\ UNCHANGED <<jobs, handler, dispatched, events, reported, execVars, httpVars, createVars>>

\* simulation_runner, first half: createSimulation, then the child is added
\* to run_experiment's experiment_folder and that record is saved
RegisterChild ==
    /\ registered < NumSims
    /\ dispatched = registered
    /\ registered' = registered + 1
    /\ simDb' = [simDb EXCEPT ![registered'] = NewSimulation]
    /\ expMem' = WithChild(expMem, registered')
    /\ expDb' = expMem'
    /\ lastSave' = "simulation_runner"
    /\ lateRegistration' = (lateRegistration \/ \E c \in Sims : reported[c].seen)
    /\ UNCHANGED <<jobs, handler, dispatched, events, reported, execVars, httpVars, createVars>>

\* simulation_runner, second half: createJob, job_id saved, run_simulation.delay
DispatchChild ==
    /\ dispatched < registered
    /\ dispatched' = dispatched + 1
    /\ jobs' = [jobs EXCEPT ![dispatched'] = NewJob]
    /\ simDb' = [simDb EXCEPT ![dispatched'].job_id = dispatched']
    /\ UNCHANGED <<expDb, expMem, handler, registered, events, lastSave,
                   lateRegistration, reported, execVars, httpVars, createVars>>

\* the updates the job of a dispatched child can receive: the executor's
\* set_status calls, QUEUED from the task backend, a user's cancel
JobUpdates(j) ==
    {[status |-> QUEUED, current |-> 0, total |-> t] :
        t \in IF j.status = INACTIVE THEN {j.total, target_time} ELSE {}}
    \cup {[status |-> RUNNING, current |-> 0, total |-> target_time] :
            x \in IF j.status \in {INACTIVE, QUEUED} THEN {0} ELSE {}}
    \cup {[status |-> RUNNING, current |-> t, total |-> target_time] :
            t \in IF j.status = RUNNING THEN {u \in AggTimes : u > j.current} ELSE {}}
    \cup {[status |-> SUCCESS, current |-> target_time, total |-> target_time] :
            x \in IF j.status = RUNNING THEN {0} ELSE {}}
    \cup {[status |-> ERROR, current |-> j.current, total |-> target_time] :
            x \in IF j.status \in {INACTIVE, QUEUED, RUNNING} THEN {0} ELSE {}}
    \cup {[status |-> CANCELED, current |-> j.current, total |-> j.total] :
            x \in IF j.status \in {INACTIVE, QUEUED, RUNNING} THEN {0} ELSE {}}

\* a job update and the 'jobs.job.update.after' event it triggers:
\* update_status up to the load of the experiment record
UpdateStatusBegin(c) ==
    /\ c <= dispatched
    /\ handler[c].pc = "idle"
    /\ events < MaxEvents
    /\ events' = events + 1
    /\ \E j \in JobUpdates(jobs[c]) :
         /\ jobs' = [jobs EXCEPT ![c] = j]
         /\ IF j.total = 0
            THEN \* progress['current'] / progress['total'] raises
                 UNCHANGED <<simDb, handler, reported>>
            ELSE /\ simDb' = [simDb EXCEPT ![c].progress = SimProgress(j.current, j.total),
                                           ![c].status = j.status]
                 /\ handler' = [handler EXCEPT ![c] =
                        [pc |-> "save", job |-> j,
                         progress |-> SimProgress(j.current, j.total),
                         exp |-> expDb]]
                 /\ reported' = [reported EXCEPT ![c] =
                        [seen |-> TRUE, status |-> j.status,
                         progress |-> SimProgress(j.current, j.total)]]
    /\ UNCHANGED <<expDb, expMem, registered, dispatched, lastSave, lateRegistration,
                   execVars, httpVars, createVars>>

\* the experiment record update_status saves: the record it loaded with this
\* child's entries replaced and progress and status recomputed
Updated(exp, c, progress, status) ==
    LET per_sim_progress == Put(exp.per_sim_progress, c, progress)
        per_sim_status == Put(exp.per_sim_status, c, status)
    IN [exp EXCEPT !.per_sim_progress = per_sim_progress,
                   !.progress = MeanProgress(per_sim_progress),
                   !.per_sim_status = per_sim_status,
                   !.status = AggregateStatus(per_sim_status)]

\* update_status from the modification of the loaded record to its save
UpdateStatusSave(c) ==
    /\ handler[c].pc = "save"
    /\ expDb' = Updated(handler[c].exp, c, handler[c].progress, handler[c].job.status)
    /\ handler' = [handler EXCEPT ![c] = Idle]
    /\ lastSave' = "update_status"
    /\ UNCHANGED <<expMem, simDb, jobs, registered, dispatched, events,
                   lateRegistration, reported, execVars, httpVars, createVars>>

NextAgg ==
    \/ RegisterChild
    \/ DispatchChild
    \/ \E c \in Sims : UpdateStatusBegin(c)
    \/ \E c \in Sims : UpdateStatusSave(c)

SpecAgg == InitAgg /\ [][NextAgg]_vars

ExecStep ==
    \/ Initialize
    \/ SetRunning
    \/ NextState
    \/ Poll
    \/ Handle
    \/ UploadCreate
    \/ UploadFiles
    \/ CheckpointStatus
    \/ Finalize
    \/ SetSuccess
    \/ HandleError

InitAggOff ==
    /\ expDb = NewExperiment
    /\ expMem = NewExperiment
    /\ simDb = [c \in Sims |-> NoSimulation]
    /\ jobs = [c \in Sims |-> NewJob]
    /\ handler = [c \in Sims |-> Idle]
    /\ registered = 0
    /\ dispatched = 0
    /\ events = 0
    /\ lastSave = "createExperiment"
    /\ lateRegistration = FALSE
    /\ reported = [c \in Sims |-> NotReported]

Init == InitExec /\ InitAggOff /\ InitHttpOff /\ InitCreateOff

Next ==
    \/ Initialize
    \/ SetRunning
    \/ NextState
    \/ Poll
    \/ Handle
    \/ UploadCreate
    \/ UploadFiles
    \/ CheckpointStatus
    \/ Finalize
    \/ SetSuccess
    \/ HandleError
    \/ Cancel

Spec == Init /\ [][Next]_vars

\* the worker runs the task to its end: the executor's steps are never
\* postponed forever; the user's cancel request is not obliged to come
SpecFair == Spec /\ WF_vars(ExecStep)

\* ======================================================================
\* The executor's requests to the server and their retry (SpecRetry)
\* ======================================================================
\* number of calls the executor makes
MaxCalls == 3

\* Retry(total=10, backoff_factor=0.1, status_forcelist=[413, 429, 500, 503])
retry_total == 10
status_forcelist == {413, 429, 500, 503}
\* the response conditions of one request: success, client errors, and the
\* conditions of status_forcelist
Responses == {200, 400, 404} \cup status_forcelist

\* the calls of run_simulation to the server
Ops == {"get_folder", "upload_config", "upload", "set_status", "is_cancelled", "finalize"}

\* GirderConfig.client: every access constructs a new GirderClient, which has
\* no session of its own
client == [session |-> FALSE]

\* the retries the transport of a client makes: those of the adapter mounted
\* on the client's session, none for a client without a session
Retries(cl) == IF cl.session THEN retry_total ELSE 0

InitRetry ==
    /\ InitExecOff
    /\ InitAggOff
    /\ InitCreateOff
    /\ clients = <<>>
    /\ call = [pc |-> "start", op |-> "-", client |-> 0, attempts |-> 0, response |-> 0]
    /\ calls = 0

\* with girder_config.client.session() as session: ...; session.mount(
\* girder_config.client.urlBase, adapter): a first client gets the session
\* with the retrying adapter, a second one is constructed for its urlBase
MountRetry ==
    /\ call.pc = "start"
    /\ clients' = <<[client EXCEPT !.session = TRUE], client>>
    /\ call' = [call EXCEPT !.pc = "idle"]
    /\ UNCHANGED <<calls, execVars, aggVars, createVars>>

\* a call of the executor: self.client.get / put / post / uploadFileToFolder
\* on the client that the property constructs for it
Request(op) ==
    /\ call.pc \in {"idle", "ok", "failed"}
    /\ calls < MaxCalls
    /\ calls' = calls + 1
    /\ clients' = Append(clients, client)
    /\ call' = [pc |-> "sending", op |-> op, client |-> Len(clients'),
                attempts |-> 0, response |-> 0]
    /\ UNCHANGED <<execVars, aggVars, createVars>>

\* one attempt of the request and the server's response to it
Respond ==
    /\ call.pc = "sending"
    /\ \E r \in Responses :
         call' = [call EXCEPT
                    !.attempts = @ + 1,
                    !.response = r,
                    !.pc = IF r = 200 THEN "ok"
                           ELSE IF /\ r \in status_forcelist
                                   /\ call.attempts < Retries(clients[call.client])
                                THEN "sending"
                                ELSE "failed"]
    /\ UNCHANGED <<clients, calls, execVars, aggVars, createVars>>

NextRetry ==
    \/ MountRetry
    \/ \E op \in Ops : Request(op)
    \/ Respond

SpecRetry == InitRetry /\ [][NextRetry]_vars

MaxLen == 3
\* largest simulation.runs_per_config
MaxRuns == 2
\* latest time of a checkpoint folder of a summarised simulation
MaxTime == 2
\* largest configured value of a listed simulation, and of a range bound
MaxValue == 2
\* longest list of filters of a listing
MaxFilters == 2

\* a configuration document is the sequence of its parameters in document
\* order (module, then parameter); a scalar has one value
Param(m, p, isList, vals) ==
    [module |-> m, parameter |-> p, list |-> isList, values |-> vals]
Key(e) == <<e.module, e.parameter>>
ParamValues(m, p) ==
    {Param(m, p, FALSE, <<7>>)}
    \cup {Param(m, p, TRUE, [i \in 1..n |-> i]) : n \in 0..MaxLen}
OptParam(m, p) == {<<>>} \cup {<<e>> : e \in ParamValues(m, p)}

\* the documents of the requests: module simulation with run_time and
\* runs_per_config present or not, and one parameter of a module A
RunTimes == {0 - TimeUnit, 0, target_time}
SimulationModule ==
    {rt \o rpc :
        rt \in {<<>>} \cup {<<Param("simulation", "run_time", FALSE, <<t>>)>> : t \in RunTimes},
        rpc \in {<<>>} \cup {<<Param("simulation", "runs_per_config", FALSE, <<MaxRuns>>)>>}}
CreateDocs == {sim \o a : sim \in SimulationModule, a \in OptParam("A", "x")}

\* the documents of the expansion: a valid run_time and up to three further
\* parameters in two modules, in every document order
ModuleA ==
    {x \o z : x \in OptParam("A", "x"), z \in OptParam("A", "z")}
    \cup {z \o x : x \in OptParam("A", "x"), z \in OptParam("A", "z")}
ModuleB == OptParam("B", "y")
ExpandDocs ==
    LET sim == <<Param("simulation", "run_time", FALSE, <<target_time>>)>>
    IN {sim \o a \o b : a \in ModuleA, b \in ModuleB}
       \cup {sim \o b \o a : a \in ModuleA, b \in ModuleB}

\* config.get(module, {}).get(parameter, default)
Get(doc, m, p, default) ==
    IF \E i \in 1..Len(doc) : Key(doc[i]) = <<m, p>>
    THEN doc[CHOOSE i \in 1..Len(doc) : Key(doc[i]) = <<m, p>>].values[1]
    ELSE default

\* for val in parameter_values: new_cfg = copy.deepcopy(cfg);
\* new_cfg[module][parameter] = val; new_configs.append(new_cfg)
ForValues(cfg, e) == [j \in 1..Len(e.values) |-> Put(cfg, Key(e), e.values[j])]

\* an expansion whose outer loop is over the values
NewConfigsValueMajor(configs, e) ==
    [k \in 1..(Len(configs) * Len(e.values)) |->
        Put(configs[((k - 1) % Len(configs)) + 1], Key(e),
            e.values[((k - 1) \div Len(configs)) + 1])]

\* for cfg in configs: for val in parameter_values: ...
RECURSIVE NewConfigs(_, _)
NewConfigs(configs, e) ==
    IF Len(configs) = 0 THEN <<>>
    ELSE ForValues(Head(configs), e) \o NewConfigs(Tail(configs), e)

\* an iteration that records every list-valued parameter as a variable
ExpandParameterEveryList(st, e) ==
    IF e.list
    THEN [configs |-> NewConfigs(st.configs, e),
          experimental_variables |-> Append(st.experimental_variables, e)]
    ELSE [configs |-> [i \in 1..Len(st.configs) |->
                          Put(st.configs[i], Key(e), e.values[1])],
          experimental_variables |-> st.experimental_variables]

\* one iteration of the loop over the parameters of the document
ExpandParameter(st, e) ==
    IF e.list
    THEN [configs |-> NewConfigs(st.configs, e),
          experimental_variables |->
              IF Len(e.values) > 1
              THEN Append(st.experimental_variables, e)
              ELSE st.experimental_variables]
    ELSE [configs |-> [i \in 1..Len(st.configs) |->
                          Put(st.configs[i], Key(e), e.values[1])],
          experimental_variables |-> st.experimental_variables]

RECURSIVE ExpandFrom(_, _, _)
ExpandFrom(st, doc, i) ==
    IF i > Len(doc) THEN st
    ELSE ExpandFrom(ExpandParameter(st, doc[i]), doc, i + 1)

\* configs = [dict()]; experimental_variables = []; the loop over the document
Expand(doc) ==
    ExpandFrom([configs |-> << <<>> >>, experimental_variables |-> <<>>], doc, 1)

\* a request as it is received
NewRequest(kind, doc) ==
    [kind |-> kind, pc |-> "start", config |-> doc, run_time |-> 0,
     runs_per_config |-> 1, configs |-> <<>>, experimental_variables |-> <<>>,
     child |-> 0, simulation |-> 0, job |-> 0, jobs |-> <<>>, error |-> "none"]

NoCancel == [pc |-> "idle", raised |-> FALSE, children |-> {}, attempted |-> {}, logged |-> {}]

InitCreate ==
    /\ InitExecOff
    /\ InitAggOff
    /\ InitHttpOff
    /\ req \in {NewRequest(kind, doc) :
                  kind \in {"experiment", "simulation"}, doc \in CreateDocs}
    /\ store = [experiments |-> 0, component_simulations |-> <<>>, simulations |-> <<>>,
               jobs |-> <<>>, queue |-> <<>>]
    /\ cancelExp = NoCancel

InitExpand ==
    /\ InitExecOff
    /\ InitAggOff
    /\ InitHttpOff
    /\ req \in {[NewRequest("experiment", doc) EXCEPT
                    !.pc = "expand", !.run_time = target_time] : doc \in ExpandDocs}
    /\ store = [experiments |-> 0, component_simulations |-> <<>>, simulations |-> <<>>,
               jobs |-> <<>>, queue |-> <<>>]
    /\ cancelExp = NoCancel

\* a test that lets a run time of zero pass
InvalidRunTimeNegative(t) == t < 0
\* if target_time <= 0
InvalidRunTime(t) == t <= 0

\* a loop over the configurations only
NumChildrenOnePerConfig(r) ==
    IF r.kind = "simulation" THEN 1 ELSE Len(r.configs)
\* the number of children the request creates
NumChildren(r) ==
    IF r.kind = "simulation" THEN 1 ELSE Len(r.configs) * r.runs_per_config

\* an exception leaves the request handler
Fail(what) == req' = [req EXCEPT !.pc = "failed", !.error = what]

\* run_experiment up to the expansion: the run time test, runs_per_config,
\* the lookup of the user's public folder
ValidateRunTime ==
    /\ req.kind = "experiment"
    /\ req.pc = "start"
    /\ \E public \in BOOLEAN :
         LET t == Get(req.config, "simulation", "run_time", 0)
         IN req' = IF InvalidRunTime(t)
                   THEN [req EXCEPT !.pc = "rejected", !.run_time = t,
                                    !.error = "invalid run time"]
                   ELSE IF ~public
                   THEN [req EXCEPT !.pc = "rejected", !.run_time = t,
                                    !.error = "no public folder"]
                   ELSE [req EXCEPT !.pc = "expand", !.run_time = t,
                                    !.runs_per_config =
                                        Get(req.config, "simulation", "runs_per_config", 1)]
    /\ UNCHANGED <<store, cancelExp, execVars, aggVars, httpVars>>

\* run_experiment: the cartesian product of the list-valued parameters
ExpandConfigs ==
    /\ req.pc = "expand"
    /\ req' = [req EXCEPT !.configs = Expand(req.config).configs,
                          !.experimental_variables =
                              Expand(req.config).experimental_variables,
                          !.pc = "createExperiment"]
    /\ UNCHANGED <<store, cancelExp, execVars, aggVars, httpVars>>

\* run_experiment: experiment_model.createExperiment
CreateExperiment ==
    /\ req.pc = "createExperiment"
    /\ \/ /\ store' = [store EXCEPT !.experiments = @ + 1]
          /\ req' = [req EXCEPT !.pc = IF NumChildren(req) = 0
                                       THEN "returned" ELSE "createSimulation"]
       \/ /\ Fail("createExperiment")
          /\ UNCHANGED store
    /\ UNCHANGED <<cancelExp, execVars, aggVars, httpVars>>

\* execute_simulation up to the call of simulation_runner
execute_simulation ==
    /\ req.kind = "simulation"
    /\ req.pc = "start"
    /\ \E public \in BOOLEAN :
         req' = IF public
                THEN [req EXCEPT !.pc = "createSimulation",
                                 !.run_time = Get(req.config, "simulation", "run_time", 96)]
                ELSE [req EXCEPT !.pc = "rejected", !.error = "no public folder"]
    /\ UNCHANGED <<store, cancelExp, execVars, aggVars, httpVars>>

\* simulation_runner: simulation_model.createSimulation
RunnerCreateSimulation ==
    /\ req.pc = "createSimulation"
    /\ \/ /\ store' = [store EXCEPT !.simulations =
                         Append(@, [job_id |-> 0,
                                    in_experiment |-> req.kind = "experiment"])]
          /\ req' = [req EXCEPT !.simulation = Len(store.simulations) + 1,
                                !.pc = IF req.kind = "experiment"
                                       THEN "register" ELSE "createJob"]
       \/ /\ Fail("createSimulation")
          /\ UNCHANGED store
    /\ UNCHANGED <<cancelExp, execVars, aggVars, httpVars>>

\* simulation_runner: the child is added to the experiment, which is saved
RunnerRegister ==
    /\ req.pc = "register"
    /\ \/ /\ store' = [store EXCEPT !.component_simulations = Append(@, req.simulation)]
          /\ req' = [req EXCEPT !.pc = "createJob"]
       \/ /\ Fail("save experiment")
          /\ UNCHANGED store
    /\ UNCHANGED <<cancelExp, execVars, aggVars, httpVars>>

\* simulation_runner: job_model.createJob
RunnerCreateJob ==
    /\ req.pc = "createJob"
    /\ \/ /\ store' = [store EXCEPT !.jobs = Append(@, [status |-> INACTIVE])]
          /\ req' = [req EXCEPT !.job = Len(store.jobs) + 1, !.pc = "saveJobId"]
       \/ /\ Fail("createJob")
          /\ UNCHANGED store
    /\ UNCHANGED <<cancelExp, execVars, aggVars, httpVars>>

\* simulation_runner: simulation['nli']['job_id'] = job['_id'], saved
RunnerSaveJobId ==
    /\ req.pc = "saveJobId"
    /\ \/ /\ store' = [store EXCEPT !.simulations[req.simulation].job_id = req.job]
          /\ req' = [req EXCEPT !.pc = "delay"]
       \/ /\ Fail("save simulation")
          /\ UNCHANGED store
    /\ UNCHANGED <<cancelExp, execVars, aggVars, httpVars>>

\* simulation_runner: run_simulation.delay and the return to the caller,
\* which keeps the job (jobs.append(job)) for its result
RunnerDelay ==
    /\ req.pc = "delay"
    /\ \/ /\ store' = [store EXCEPT !.queue = Append(@, req.job)]
          /\ req' = [req EXCEPT !.child = @ + 1,
                                !.jobs = Append(@, req.job),
                                !.pc = IF req.child + 1 < NumChildren(req)
                                       THEN "createSimulation" ELSE "returned"]
       \/ /\ Fail("delay")
          /\ UNCHANGED store
    /\ UNCHANGED <<cancelExp, execVars, aggVars, httpVars>>

\* the experiment as a document, and experiment['_id']
ExperimentDocument == [isDocument |-> TRUE, id |-> 1]
IdOf(document) == [isDocument |-> FALSE, id |-> document.id]

\* Folder.childFolders(parent, parentType): the folders whose parentId is
\* parent['_id']; parent is the parent document (as in models.py), and the
\* subscript raises when it is given an id
childFolders(parent) ==
    IF parent.isDocument
    THEN [raised |-> FALSE, folders |-> [i \in 1..Len(store.simulations) |-> i]]
    ELSE [raised |-> TRUE, folders |-> <<>>]

\* _cancel_simulation raises when the simulation has no job yet or the load
\* or cancelJob fails
CancelRaises(sim, fails) == store.simulations[sim].job_id = 0 \/ sim \in fails

Elems(seq) == {seq[i] : i \in 1..Len(seq)}

\* cancel_experiment: the children are looked up, then the job of each is
\* canceled inside a try whose except clause logs
cancel_experiment ==
    /\ req.kind = "experiment"
    /\ store.experiments > 0
    /\ cancelExp.pc = "idle"
    /\ \E fails \in SUBSET (1..Len(store.simulations)) :
         LET children == childFolders(IdOf(ExperimentDocument))
             canceled == {c \in Elems(children.folders) : ~CancelRaises(c, fails)}
         IN /\ cancelExp' =
                 [pc |-> "done",
                  raised |-> children.raised,
                  children |-> 1..Len(store.simulations),
                  attempted |-> Elems(children.folders),
                  logged |-> Elems(children.folders) \ canceled]
            /\ store' = [store EXCEPT !.jobs =
                 [j \in 1..Len(store.jobs) |->
                     IF /\ \E c \in canceled : store.simulations[c].job_id = j
                        /\ store.jobs[j].status \in {INACTIVE, QUEUED, RUNNING}
                     THEN [store.jobs[j] EXCEPT !.status = CANCELED]
                     ELSE store.jobs[j]]]
    /\ UNCHANGED <<req, execVars, aggVars, httpVars>>

NextCreate ==
    \/ ValidateRunTime
    \/ ExpandConfigs
    \/ CreateExperiment
    \/ execute_simulation
    \/ RunnerCreateSimulation
    \/ RunnerRegister
    \/ RunnerCreateJob
    \/ RunnerSaveJobId
    \/ RunnerDelay
    \/ cancel_experiment

SpecCreate == InitCreate /\ [][NextCreate]_vars

NextExpand == ExpandConfigs

SpecExpand == InitExpand /\ [][NextExpand]_vars

\* ======================================================================
\* Run names (SpecNames)
\* ======================================================================
\* a string is the sequence of its characters
Digit(d) == <<"0", "1", "2", "3", "4", "5", "6", "7", "8", "9">>[d + 1]

\* str(n) of a run number
RECURSIVE StrNat(_)
StrNat(n) == IF n < 10 THEN <<Digit(n)>> ELSE StrNat(n \div 10) \o <<Digit(n % 10)>>

\* a padding that leaves the string as it is
NoFill(s, width) == s
\* s.zfill(width)
RECURSIVE zfill(_, _)
zfill(s, width) == IF Len(s) >= width THEN s ELSE zfill(<<"0">> \o s, width)

\* math.floor(1 + math.log10(runs_per_config)), runs_per_config >= 1
RECURSIVE max_run_digit_len(_)
max_run_digit_len(runs) == IF runs < 10 THEN 1 ELSE 1 + max_run_digit_len(runs \div 10)

\* a configured value is a number or a text; str(value)
Num(n) == [num |-> TRUE, n |-> n, s |-> <<>>]
Text(s) == [num |-> FALSE, n |-> 0, s |-> s]
str(v) == IF v.num THEN StrNat(v.n) ELSE v.s

\* '-' + str(module) + '.' + str(parameter) + '-' + str(value), for each
\* experimental variable from the i-th on
RECURSIVE VariableSuffix(_, _, _)
VariableSuffix(evs, cfg, i) ==
    IF i > Len(evs) THEN <<>>
    ELSE <<"-">> \o evs[i].module \o <<".">> \o evs[i].parameter \o <<"-">>
         \o str(cfg[Key(evs[i])]) \o VariableSuffix(evs, cfg, i + 1)

\* run_name = name + "-run-" + str(run_number).zfill(max_run_digit_len) + ...
run_name(name, run_number, width, evs, cfg) ==
    name \o <<"-", "r", "u", "n", "-">> \o zfill(StrNat(run_number), width)
    \o VariableSuffix(evs, cfg, 1)

\* the values of the documents whose runs are named: numbers, texts, and
\* texts that contain '-' and '.'
Joined(u, v) == u \o <<"-", "B", ".", "y", "-">> \o v
NameValues ==
    {Num(1), Text(<<"1">>), Text(<<"a">>), Text(<<"b">>),
     Text(Joined(<<"a">>, <<"b">>)), Text(Joined(<<"b">>, <<"b">>))}
NameParams(m, p) ==
    {Param(m, p, FALSE, <<v>>) : v \in NameValues}
    \cup {Param(m, p, TRUE, <<vw[1], vw[2]>>) :
             vw \in {q \in NameValues \X NameValues : q[1] # q[2]}}

\* the documents: a run time and the parameters A.x and B.y
NameDocs ==
    {<<Param(<<"s">>, <<"t">>, FALSE, <<Num(target_time)>>), x, y>> :
        x \in NameParams(<<"A">>, <<"x">>), y \in NameParams(<<"B">>, <<"y">>)}

\* run_experiment when the experiment has been created: the name of the
\* request, runs_per_config, the configurations and experimental variables
NamingRequest(doc, runs) ==
    [kind |-> "experiment", pc |-> "name", name |-> <<"e">>, config |-> doc,
     runs_per_config |-> runs, configs |-> Expand(doc).configs,
     experimental_variables |-> Expand(doc).experimental_variables,
     names |-> <<>>]

InitNames ==
    /\ InitExecOff
    /\ InitAggOff
    /\ InitHttpOff
    /\ req \in {NamingRequest(doc, runs) : doc \in NameDocs, runs \in {1, MaxRuns, 10}}
    /\ store = [experiments |-> 1, component_simulations |-> <<>>, simulations |-> <<>>,
               jobs |-> <<>>, queue |-> <<>>]
    /\ cancelExp = NoCancel

\* the run names of the loops over configs and range(runs_per_config)
NameRuns ==
    /\ req.pc = "name"
    /\ req' = [req EXCEPT
                 !.pc = "named",
                 !.names =
                     [n \in 1..(Len(req.configs) * req.runs_per_config) |->
                         run_name(req.name,
                                  (n - 1) % req.runs_per_config,
                                  max_run_digit_len(req.runs_per_config),
                                  req.experimental_variables,
                                  req.configs[((n - 1) \div req.runs_per_config) + 1])]]
    /\ UNCHANGED <<store, cancelExp, execVars, aggVars, httpVars>>

NextNames == NameRuns

SpecNames == InitNames /\ [][NextNames]_vars

\* ======================================================================
\* Summaries of an experiment (SpecSummary)
\* ======================================================================
\* a dict is the sequence of its (key, value) items in insertion order; a
\* value is a scalar or a dict
Leaf(v) == [dict |-> FALSE, v |-> v, items |-> <<>>]
Dict(items) == [dict |-> TRUE, v |-> 0, items |-> items]
\* d[key]
Item(d, key) ==
    LET i == CHOOSE k \in 1..Len(d.items) : d.items[k][1] = key
    IN  d.items[i][2]

\* concatenation of a sequence of sequences
RECURSIVE Chain(_)
Chain(ss) == IF ss = <<>> THEN <<>> ELSE Head(ss) \o Chain(Tail(ss))

\* '.'.join(path)
RECURSIVE join(_)
join(path) == IF Len(path) <= 1 THEN path ELSE <<Head(path), ".">> \o join(Tail(path))

\* flatten_dict: the (dotted key, value) pairs of the scalars of a nested
\* dict, in the order of the items
RECURSIVE flatten_dict(_, _)
flatten_dict(d, prefix) ==
    Chain([i \in 1..Len(d.items) |->
              LET key == d.items[i][1]
                  value == d.items[i][2]
              IN  IF value.dict
                  THEN flatten_dict(value, prefix \o <<key>>)
                  ELSE << <<join(prefix \o <<key>>), value.v>> >>])

\* the statistics a checkpoint folder of child c carries at time t
Statistics(c, t) ==
    Dict(<< <<"m", Dict(<< <<"n", Leaf(10 * c + t)>> >>)>>, <<"k", Leaf(t)>> >>)
\* a checkpoint folder; time -1 is what meta.get('time', -1) gives a folder
\* without a time
CheckpointFolder(c, t) == [time |-> t, nli |-> Statistics(c, t)]

\* Simulation.get_summary_stats: the statistics of the folders with a time
\* that is not negative, by time
Simulation_get_summary_stats(simulation) ==
    LET subfolders == simulation.folders
        times == {subfolders[i].time : i \in 1..Len(subfolders)} \cap Nat
    IN  [t \in times |->
            LET last == CHOOSE i \in 1..Len(subfolders) :
                            /\ subfolders[i].time = t
                            /\ \A k \in 1..Len(subfolders) :
                                   subfolders[k].time = t => k <= i
            IN  subfolders[last].nli]

\* itertools.product of a list of lists: the last list cycles fastest
RECURSIVE product(_)
product(lists) ==
    IF lists = <<>> THEN << <<>> >>
    ELSE LET rest == product(Tail(lists))
             values == Head(lists)
         IN  [n \in 1..(Len(values) * Len(rest)) |->
                 <<values[((n - 1) \div Len(rest)) + 1]>>
                 \o rest[((n - 1) % Len(rest)) + 1]]

\* the experimental treatments: for each point of the product, the
\* (module, parameter, value) assignments of the experimental variables
experimental_group_params(experimental_variables) ==
    LET evs == experimental_variables
        points == product([i \in 1..Len(evs) |-> evs[i].values])
    IN  [g \in 1..Len(points) |->
            [i \in 1..Len(evs) |->
                [module |-> evs[i].module, parameter |-> evs[i].parameter,
                 value |-> points[g][i]]]]

\* all(folder['nli']['config'][module][parameter] == value ...)
GroupMatches(folder, group_params) ==
    \A i \in 1..Len(group_params) :
        Item(Item(folder.nli.config, group_params[i].module),
             group_params[i].parameter).v = group_params[i].value

\* the loop over enumerate(experimental_group_params): -1, overwritten by the
\* number of the first group that matches
group_num(folder, groups) ==
    IF \E g \in 1..Len(groups) : GroupMatches(folder, groups[g])
    THEN (CHOOSE g \in 1..Len(groups) :
             /\ GroupMatches(folder, groups[g])
             /\ \A h \in 1..(g - 1) : ~GroupMatches(folder, groups[h])) - 1
    ELSE -1

\* Experiment.get_summary_stats: the dict it returns; the id of a child is
\* its position among the experiment's folders
Experiment_get_summary_stats(experiment) ==
    LET groups == experimental_group_params(experiment.meta.experimental_variables)
        subfolders == experiment.children
        kept == {i \in 1..Len(subfolders) :
                    subfolders[i].nli.simulation /\ subfolders[i].nli.in_experiment}
    IN  ("experimental_group_params" :> groups)
        @@ ("experiment_complete" :> (\A i \in kept : subfolders[i].nli.complete))
        @@ ("names" :> [i \in kept |-> subfolders[i].name])
        @@ ("runs_per_config" :> experiment.meta.runs_per_config)
        @@ ("simulation completion" :> [i \in kept |-> subfolders[i].nli.complete])
        @@ ("simulation group map" :>
               [i \in (IF Len(groups) = 0 THEN {} ELSE kept) |->
                   group_num(subfolders[i], groups)])
        @@ ("stats" :> [i \in kept |-> Simulation_get_summary_stats(subfolders[i])])

\* sorted(set) of numbers
RECURSIVE SortTimes(_)
SortTimes(S) ==
    IF S = {} THEN <<>>
    ELSE LET least == CHOOSE t \in S : \A u \in S : t <= u
         IN  <<least>> \o SortTimes(S \ {least})

\* list comparison of the flattened configurations
RECURSIVE ListLess(_, _)
ListLess(a, b) ==
    IF a = <<>> THEN b # <<>>
    ELSE IF b = <<>> THEN FALSE
    ELSE IF Head(a)[2] = Head(b)[2] THEN ListLess(Tail(a), Tail(b))
    ELSE Head(a)[2] < Head(b)[2]

\* the ids of a dict of configurations, sorted (stably) by flatten_dict
RECURSIVE SortIds(_, _)
SortIds(ids, configs) ==
    IF ids = {} THEN <<>>
    ELSE LET sortKey(i) == flatten_dict(configs[i], <<>>)
             first == CHOOSE i \in ids : \A o \in ids \ {i} :
                          \/ ListLess(sortKey(i), sortKey(o))
                          \/ ~ListLess(sortKey(o), sortKey(i)) /\ i < o
         IN  <<first>> \o SortIds(ids \ {first}, configs)

Returned(rows) == [raised |-> "none", rows |-> rows]
Raised(exception) == [raised |-> exception, rows |-> <<>>]

\* get_experiment_csv: the rows of the csv it returns ('' is no rows), or the
\* exception it raises; a lookup of a key that a dict does not have raises
\* KeyError
get_experiment_csv(experiment) ==
    LET experiment_stats == Experiment_get_summary_stats(experiment)
        stats == experiment_stats["stats"]
        time_steps == SortTimes(UNION {DOMAIN stats[s] : s \in DOMAIN stats})
    IN  IF "simulation config" \notin DOMAIN experiment_stats
        THEN Raised("KeyError")
        ELSE
        LET configs == experiment_stats["simulation config"]
            simulation_ids == SortIds(DOMAIN configs, configs)
            num_simulations == Len(simulation_ids)
        IN  IF Len(time_steps) <= 0 \/ num_simulations <= 0
            THEN Returned(<<>>)
            ELSE IF time_steps[1] \notin DOMAIN stats[simulation_ids[1]]
            THEN Raised("KeyError")
            ELSE
            LET first == flatten_dict(stats[simulation_ids[1]][time_steps[1]], <<>>)
                per_sim_variables == [i \in 1..Len(first) |-> first[i][1]]
                num_vars == Len(per_sim_variables)
                blanks(n) == [i \in 1..n |-> ""]
                name(s) == experiment_stats["names"][s]
                parameters(s) ==
                    LET flat == flatten_dict(configs[s], <<>>)
                    IN  [n \in 1..Len(flat) |->
                            <<IF n = 1 THEN name(s) ELSE "", flat[n][1], flat[n][2]>>]
                cells(s, t) ==
                    IF t \in DOMAIN stats[s]
                    THEN LET flat == flatten_dict(stats[s][t], <<>>)
                         IN  [i \in 1..Len(flat) |-> flat[i][2]]
                    ELSE blanks(num_vars)
            IN  Returned(
                    << <<"Simulation Name", "Parameter", "Value">> >>
                    \o Chain([j \in 1..num_simulations |-> parameters(simulation_ids[j])])
                    \o << <<"">> \o Chain([j \in 1..num_simulations |->
                              <<name(simulation_ids[j])>> \o blanks(num_vars - 1)]) >>
                    \o << <<"time">> \o Chain([j \in 1..num_simulations |->
                              per_sim_variables]) >>
                    \o [k \in 1..Len(time_steps) |->
                           <<time_steps[k]>>
                           \o Chain([j \in 1..num_simulations |->
                                  cells(simulation_ids[j], time_steps[k])])])

\* the stored experiments: experimental variables of the metadata
ExperimentalVariable(m, p, values) == [module |-> m, parameter |-> p, values |-> values]
SummaryVariables ==
    {<<>>,
     <<ExperimentalVariable("A", "x", <<1, 2>>)>>,
     <<ExperimentalVariable("A", "x", <<1, 1>>)>>,
     <<ExperimentalVariable("A", "x", <<1, 2>>),
       ExperimentalVariable("B", "y", <<1, 2>>)>>}

\* the concrete configurations of the children: x = 3 is a value that no
\* experimental variable lists
SummaryConfigs ==
    {Dict(<< <<"A", Dict(<< <<"x", Leaf(xy[1])>> >>)>>,
             <<"B", Dict(<< <<"y", Leaf(xy[2])>> >>)>> >>) :
        xy \in {<<1, 1>>, <<2, 2>>, <<3, 1>>}}

\* the checkpoint folders of a child: none, or those of the times from..to
CheckpointRuns(c) ==
    {<<>>} \cup
    {[i \in 1..(to - from + 1) |-> CheckpointFolder(c, from + i - 1)] :
        from \in -1..MaxTime, to \in -1..MaxTime}

SummaryChild(c, config, isComplete, folders) ==
    [name |-> <<"e", c>>, folders |-> folders,
     nli |-> [simulation |-> TRUE, in_experiment |-> TRUE, complete |-> isComplete,
              config |-> config]]

RECURSIVE SummaryChildren(_)
SummaryChildren(n) ==
    IF n = 0 THEN {<<>>}
    ELSE {Append(cs, SummaryChild(n, p[1], p[2], p[3])) :
             cs \in SummaryChildren(n - 1),
             p \in SummaryConfigs \X BOOLEAN \X CheckpointRuns(n)}

SummaryRequest(evs, children) ==
    [kind |-> "summary", pc |-> "stored",
     experiment |-> [meta |-> [experimental_variables |-> evs, runs_per_config |-> 1],
                     children |-> children],
     json |-> <<>>, csv |-> Returned(<<>>)]

InitSummary ==
    /\ InitExecOff
    /\ InitAggOff
    /\ InitHttpOff
    /\ req \in {SummaryRequest(evs, children) :
                   evs \in SummaryVariables,
                   children \in UNION {SummaryChildren(n) : n \in 0..NumSims}}
    /\ store = [experiments |-> 1, component_simulations |-> <<>>, simulations |-> <<>>,
               jobs |-> <<>>, queue |-> <<>>]
    /\ cancelExp = NoCancel

\* GET experiment/:id/json
get_experiment_json ==
    /\ req.kind = "summary"
    /\ req.pc = "stored"
    /\ req' = [req EXCEPT !.pc = "json",
                          !.json = Experiment_get_summary_stats(req.experiment)]
    /\ UNCHANGED <<store, cancelExp, execVars, aggVars, httpVars>>

\* GET experiment/:id/csv
GetExperimentCsv ==
    /\ req.kind = "summary"
    /\ req.pc = "stored"
    /\ req' = [req EXCEPT !.pc = "csv", !.csv = get_experiment_csv(req.experiment)]
    /\ UNCHANGED <<store, cancelExp, execVars, aggVars, httpVars>>

NextSummary ==
    \/ get_experiment_json
    \/ GetExperimentCsv

SpecSummary == InitSummary /\ [][NextSummary]_vars

\* ======================================================================
\* Listing simulations with a configuration filter (SpecFilter)
\* ======================================================================
\* a bound of a range: null or a number
Null == [null |-> TRUE, n |-> 0]
Number(n) == [null |-> FALSE, n |-> n]
ConfigFilter(m, k, min, max) == [module |-> m, key |-> k, range |-> <<min, max>>]

\* the key 'nli.config.<module>.<key>' as a path into the simulation
ConfigKey(c) == <<"nli", "config", c.module, c.key>>

\* the condition of one filter: {} with '$gte' and '$lte' set for the bounds
\* that are not None
Condition(c) ==
    LET min == c.range[1]
        max == c.range[2]
    IN  [op \in (IF min.null THEN {} ELSE {"$gte"}) \cup (IF max.null THEN {} ELSE {"$lte"}) |->
            IF op = "$gte" THEN min.n ELSE max.n]

\* Simulation.filter_by_config: the query after the filters from the i-th on
\* have been assigned, each under its key
RECURSIVE FilterFrom(_, _, _)
FilterFrom(config, i, query) ==
    IF i > Len(config) THEN query
    ELSE FilterFrom(config, i + 1,
                    [k \in DOMAIN query \cup {ConfigKey(config[i])} |->
                        IF k = ConfigKey(config[i]) THEN Condition(config[i]) ELSE query[k]])
filter_by_config(config) == FilterFrom(config, 1, <<>>)

\* the query of Simulation.list, creator not given
ListQuery(includeArchived, in_experiment, config) ==
    [archived_ne_true |-> ~includeArchived,
     in_experiment_eq_true |-> in_experiment,
     config |-> IF Len(config) > 0 THEN filter_by_config(config) ELSE <<>>]

\* the database's match of a stored value against a condition document: the
\* operators of the condition, and equality with the document when it has
\* none; a configured value is a number, never the empty document
MatchesCondition(value, condition) ==
    IF DOMAIN condition = {}
    THEN FALSE
    ELSE /\ "$gte" \in DOMAIN condition => value >= condition["$gte"]
         /\ "$lte" \in DOMAIN condition => value <= condition["$lte"]

MatchesQuery(simulation, query) ==
    /\ query.archived_ne_true => ~simulation.nli.archived
    /\ query.in_experiment_eq_true => simulation.nli.in_experiment
    /\ \A k \in DOMAIN query.config :
           MatchesCondition(simulation.nli.config[k[3]][k[4]], query.config[k])

\* the stored simulations: one for each pair of values of A.x and A.y, an
\* archived one and one of an experiment
StoredSimulation(x, y, archived, in_experiment) ==
    [nli |-> [archived |-> archived, in_experiment |-> in_experiment,
              config |-> [A |-> [x |-> x, y |-> y]]]]
StoredSimulations ==
    {StoredSimulation(x, y, FALSE, FALSE) : x \in 0..MaxValue, y \in 0..MaxValue}
    \cup {StoredSimulation(1, 1, TRUE, FALSE), StoredSimulation(1, 1, FALSE, TRUE)}

\* Simulation.list: the simulations found with the query
list(includeArchived, in_experiment, config) ==
    {s \in StoredSimulations :
        MatchesQuery(s, ListQuery(includeArchived, in_experiment, config))}

\* the requests: flags and up to MaxFilters filters on A.x and A.y
RangeBounds == {Null} \cup {Number(n) : n \in 0..MaxValue}
ConfigFilters ==
    {ConfigFilter("A", k, b[1], b[2]) : k \in {"x", "y"}, b \in RangeBounds \X RangeBounds}
RECURSIVE FilterLists(_)
FilterLists(n) ==
    IF n = 0 THEN {<<>>}
    ELSE FilterLists(n - 1)
         \cup {Append(fs, c) : fs \in {l \in FilterLists(n - 1) : Len(l) = n - 1},
                               c \in ConfigFilters}

ListRequest(includeArchived, experiments, config) ==
    [kind |-> "list", pc |-> "received", includeArchived |-> includeArchived,
     experiments |-> experiments, config |-> config, found |-> {}]

InitFilter ==
    /\ InitExecOff
    /\ InitAggOff
    /\ InitHttpOff
    /\ req \in {ListRequest(f[1], f[2], config) :
                   f \in BOOLEAN \X BOOLEAN, config \in FilterLists(MaxFilters)}
    /\ store = [experiments |-> 0, component_simulations |-> <<>>, simulations |-> <<>>,
               jobs |-> <<>>, queue |-> <<>>]
    /\ cancelExp = NoCancel

\* GET simulation, not restricted to the user's own
list_simulations ==
    /\ req.kind = "list"
    /\ req.pc = "received"
    /\ req' = [req EXCEPT !.pc = "listed",
                          !.found = list(req.includeArchived, req.experiments, req.config)]
    /\ UNCHANGED <<store, cancelExp, execVars, aggVars, httpVars>>

NextFilter == list_simulations

SpecFilter == InitFilter /\ [][NextFilter]_vars

\* ======================================================================
\* Properties of the run executor (Spec, SpecFair)
\* ======================================================================
LogIdx == 1..Len(log)
IsStatus(e, st) == e.ev = "status" /\ e.st = st
\* the checkpoint artifact for simulated time T is complete in the store
Retrievable(T) == \E i \in 1..Len(ckpts) : ckpts[i].time = T /\ ckpts[i].files
\* a RUNNING or ERROR status update failed for a reason other than the job
\* being canceled (the failure is swallowed: the executor returns, or logs it)
StatusFault ==
    \E i \in LogIdx : /\ log[i].ev = "status"
                       /\ log[i].st \in {RUNNING, ERROR}
                       /\ log[i].cause = "fault"
\* the positions of run_simulation after a cancellation poll has returned
\* 'not canceled' and before the status-set call that follows it
CancelWindow ==
    {"handle", "upload", "upload_files", "ckpt_status", "next", "finalize", "set_success"}

\* C4: a job canceled between a cancellation poll that saw it not canceled
\* and the executor's next status-set call (checkpoint RUNNING or final
\* SUCCESS) is CANCELED from then on: no later status-set call of the
\* executor changes it back, and it is CANCELED when the executor exits.
C4_CanceledInWindowStays ==
    cancelPc \in CancelWindow => job.status = CANCELED

\* the job was canceled while the checkpoint's status update was pending,
\* the update was rejected, and the executor has exited
C4_Witness ==
    /\ pc \in Exited
    /\ cancelPc = "ckpt_status"
    /\ job.status = CANCELED
    /\ \E i \in LogIdx : IsStatus(log[i], RUNNING) /\ ~log[i].ok /\ log[i].cause = "canceled"

\* C5 (as claimed): whenever a RUNNING or SUCCESS status-set call failed
\* because the job was already canceled, the executor returns normally and
\* makes no attempt to set the job to ERROR.
C5_CancelFailureReturnsNormally ==
    (/\ pc \in Exited
     /\ \E i \in LogIdx : /\ log[i].ev = "status"
                          /\ log[i].st \in {RUNNING, SUCCESS}
                          /\ ~log[i].ok
                          /\ log[i].cause = "canceled")
    => (/\ pc = "returned"
        /\ \A i \in LogIdx : ~IsStatus(log[i], ERROR))

C7_NoRunningAtTBeforeArtifact ==
    (/\ pc \in {"upload", "upload_files"}
     /\ job.status = RUNNING
     /\ job.total = target_time
     /\ job.current = current_time)
    => Retrievable(current_time)

\* C7 (amended): the upload of a checkpoint at time T completes before the
\* checkpoint's status update reporting T is issued, and the job is never
\* seen RUNNING with progress current = T > 0 unless the artifact for T is
\* retrievable (current = 0 is reported by the initial RUNNING update,
\* before any upload).
C7_UploadBeforeStatus ==
    /\ \A i \in LogIdx :
         (log[i].ev = "status" /\ log[i].at = "ckpt_status")
         => \E j \in 1..(i - 1) : log[j].ev = "upload" /\ log[j].t = log[i].t
    /\ (job.status = RUNNING /\ job.current > 0) => Retrievable(job.current)

\* the job is seen RUNNING at a checkpoint time T > 0 whose artifact is there
C7_Witness ==
    /\ job.status = RUNNING
    /\ job.current > 0
    /\ Retrievable(job.current)
    /\ \E i \in LogIdx : log[i].ev = "status" /\ log[i].at = "ckpt_status" /\ log[i].ok

\* the loop's calls, in order
LoopEvents == SelectSeq(log, LAMBDA e : e.ev \in {"advance", "poll", "handle"})

\* C8 (as claimed): every request to the engine for the next state, the
\* first included, is preceded by a cancellation poll made since the
\* previous state was handled.
C8_PollBeforeEachAdvance ==
    \A i \in 1..Len(LoopEvents) :
        LoopEvents[i].ev = "advance"
        => (i > 1 /\ LoopEvents[i - 1].ev = "poll")

\* C8 (amended): the executor requests a state from the engine first and
\* polls for cancellation right after each state is obtained, before that
\* state is handled: every handled state was polled for (and seen not
\* canceled) since it was obtained, every poll follows an advance, the first
\* advance precedes every poll, and no upload or checkpoint status update is
\* made for a state that was not polled for.
C8_PollAfterEachAdvance ==
    /\ \A i \in 1..Len(LoopEvents) :
         /\ LoopEvents[i].ev = "advance"
            => (i = 1 \/ LoopEvents[i - 1].ev = "handle")
         /\ LoopEvents[i].ev = "poll"
            => (i > 1 /\ LoopEvents[i - 1].ev = "advance")
         /\ LoopEvents[i].ev = "handle"
            => (i > 1 /\ LoopEvents[i - 1].ev = "poll" /\ ~LoopEvents[i - 1].ok)
    /\ \A i \in LogIdx :
         (log[i].ev = "upload" \/ (log[i].ev = "status" /\ log[i].at = "ckpt_status"))
         => \E j \in 1..(i - 1) :
              /\ log[j].ev = "poll" /\ ~log[j].ok
              /\ \A k \in (j + 1)..(i - 1) : log[k].ev # "advance"

\* two states were obtained from the engine and both were polled for
C8_Witness ==
    /\ Len(LoopEvents) >= 5
    /\ LoopEvents[4].ev = "advance"
    /\ LoopEvents[5].ev = "poll"

\* the failure each step of the run raises
FailureOf(at) ==
    CASE at = "init" -> "initialize"
      [] at = "next" -> "engine"
      [] at = "poll" -> "is_cancelled"
      [] at \in {"upload", "upload_files"} -> "upload"
      [] at = "finalize" -> "finalize"
      [] at = "set_success" -> "set_status"
      [] OTHER -> "none"

ErrorUpdates == {i \in LogIdx : IsStatus(log[i], ERROR)}

\* C9: when a step of the run has raised, the executor has attempted exactly
\* one ERROR status update, with current = the last simulated time recorded
\* and total = the target time, as its last call, and what propagates is the
\* failure of that step, whether or not the ERROR update succeeded.
C9_ErrorOnceThenReraise ==
    /\ pc = "raised" =>
         /\ Cardinality(ErrorUpdates) = 1
         /\ IsStatus(log[Len(log)], ERROR)
         /\ log[Len(log)].t = current_time
         /\ log[Len(log)].tot = target_time
         /\ failedAt # "none"
         /\ exc = FailureOf(failedAt)
    /\ pc # "raised" => ErrorUpdates = {}

\* an engine failure after a state was recorded, whose ERROR update failed
C9_Witness ==
    /\ pc = "raised"
    /\ failedAt = "next"
    /\ exc = "engine"
    /\ current_time > 0
    /\ ~log[Len(log)].ok
    /\ log[Len(log)].cause = "fault"

SuccessUpdates == {i \in LogIdx : IsStatus(log[i], SUCCESS)}

\* C10: the executor sets SUCCESS only with current = total = target time,
\* right after marking the simulation complete, and only for a run whose
\* loop ended normally: no poll saw the job canceled, no RUNNING update was
\* rejected and no step before it failed.
C10_SuccessAfterFinalize ==
    \A i \in SuccessUpdates :
        /\ log[i].t = target_time
        /\ log[i].tot = target_time
        /\ i > 1
        /\ log[i - 1].ev = "finalize"
        /\ complete
        /\ failedAt \in {"none", "set_success"}
        /\ \A j \in 1..(i - 1) :
             /\ ~(log[j].ev = "poll" /\ log[j].ok)
             /\ ~(log[j].ev = "status" /\ ~log[j].ok)

\* a run whose loop completed, marked complete and set to SUCCESS
C10_Witness ==
    /\ pc = "returned"
    /\ job = [status |-> SUCCESS, current |-> target_time, total |-> target_time]
    /\ complete
    /\ \E i \in LogIdx : log[i].ev = "upload"

\* the complete uploads before entry i of the history
UploadsBefore(i) == {j \in 1..(i - 1) : log[j].ev = "upload"}
LastOf(S) == CHOOSE j \in S : \A k \in S : k <= j

\* a cancellation poll of the advance loop has seen the job CANCELED
SawCanceled(i) == log[i].ev = "poll" /\ log[i].ok

\* C31: once a cancellation poll of the advance loop has seen the job
\* CANCELED, that poll is the executor's last call: no engine advance, no
\* upload, no status update and no finalize follows it, the executor has
\* returned without an exception, the simulation is not marked complete and
\* the job is still CANCELED.
C31_CanceledPollEndsRun ==
    \A i \in LogIdx :
        SawCanceled(i)
        => /\ i = Len(log)
           /\ pc = "returned"
           /\ exc = "none"
           /\ ~complete
           /\ job.status = CANCELED
           /\ \A k \in 1..Len(ckpts) : ckpts[k].files

\* a run canceled after its first checkpoint: the next poll ends it
C31_Witness ==
    /\ pc = "returned"
    /\ Len(ckpts) = 1
    /\ Len(log) > 0
    /\ SawCanceled(Len(log))
    /\ cancelPc \in {"next", "poll"}

\* the initial status update of the run failed
InitialStatusFailed ==
    \E i \in LogIdx : /\ IsStatus(log[i], RUNNING)
                       /\ log[i].at = "set_running"
                       /\ ~log[i].ok

\* C33: when the initial update of the job to RUNNING has failed, the
\* executor has returned without an exception and that update is its only
\* call: it requested no state from the engine, uploaded no checkpoint, did
\* not mark the simulation complete and made no ERROR or SUCCESS update; the
\* uploaded config.ini is all the run has stored.
C33_InitialFailureReturns ==
    InitialStatusFailed
    => /\ pc = "returned"
       /\ exc = "none"
       /\ Len(log) = 1
       /\ engCount = 0
       /\ ckpts = <<>>
       /\ ~complete
       /\ job.status \notin {ERROR, SUCCESS, RUNNING}
       /\ configUploaded

\* the update failed although the job was not canceled: the job stays INACTIVE
C33_Witness ==
    /\ InitialStatusFailed
    /\ log[1].cause = "fault"
    /\ pc = "returned"
    /\ job.status = INACTIVE

\* C35 (as claimed): when the executor has exited and the simulation is
\* marked complete, the job is SUCCESS.
C35_CompleteOnlyWithSuccess ==
    (pc \in Exited /\ complete) => job.status = SUCCESS

\* C12: for every engine state the executor handles, a checkpoint is made
\* exactly when no checkpoint was made before in this run or the state's time
\* is at least the visualization interval greater than the time of the
\* previous checkpoint; so the first state handled is checkpointed. Every
\* upload is the one of the state just handled, and a state that passes the
\* test is uploaded next unless the upload is still in progress or failed.
C12_CheckpointExactlyWhenDue ==
    \A i \in LogIdx :
        /\ log[i].ev = "handle"
           => /\ log[i].ok <=>
                   \/ UploadsBefore(i) = {}
                   \/ log[i].t >= visualize_interval + log[LastOf(UploadsBefore(i))].t
              /\ log[i].ok
                 => \/ i < Len(log) /\ log[i + 1].ev = "upload" /\ log[i + 1].t = log[i].t
                    \/ i = Len(log) /\ pc \in {"upload", "upload_files"}
                    \/ failedAt \in {"upload", "upload_files"}
        /\ log[i].ev = "upload"
           => /\ i > 1
              /\ log[i - 1].ev = "handle"
              /\ log[i - 1].ok
              /\ log[i - 1].t = log[i].t

Handled == SelectSeq(log, LAMBDA e : e.ev = "handle")

\* the first state was checkpointed, the second came too early and was not,
\* the third was due and uploaded
C12_Witness ==
    /\ Len(Handled) = 3
    /\ Handled[1].ok /\ ~Handled[2].ok /\ Handled[3].ok
    /\ Handled[2].t > Handled[1].t
    /\ Handled[3].t = Handled[1].t + visualize_interval
    /\ Len(ckpts) = 2
    /\ ckpts[2].files

\* C13: the times of the checkpoints of one run are strictly increasing, so
\* no two checkpoints carry the same time, and each checkpoint after the
\* first is at least the visualization interval later than its predecessor.
C13_CheckpointsMonotone ==
    \A i \in 1..Len(ckpts) :
        /\ \A j \in 1..(i - 1) : ckpts[j].time < ckpts[i].time
        /\ i > 1 => ckpts[i].time >= ckpts[i - 1].time + visualize_interval

\* two checkpoints were uploaded although the engine yielded a state with
\* the time of the first checkpoint again
C13_Witness ==
    /\ Len(ckpts) = 2
    /\ ckpts[1].files /\ ckpts[2].files
    /\ Len(Handled) = 3
    /\ Handled[2].t = Handled[1].t

\* ======================================================================
\* Properties of the experiment aggregation (SpecAgg)
\* ======================================================================
Range(d) == {d[k] : k \in DOMAIN d}
\* the precedence of the statuses, highest first
Precedence == <<ERROR, CANCELED, INACTIVE, QUEUED, RUNNING, SUCCESS>>
Rank(st) == CHOOSE i \in 1..Len(Precedence) : Precedence[i] = st
\* the status of highest precedence among the children's
PrecedenceRule(d) == CHOOSE s \in Range(d) : \A t \in Range(d) : Rank(s) <= Rank(t)

\* the children's progress values are multiples of 1 / target_time: their sum
\* in that unit
RECURSIVE SumScaled(_, _)
SumScaled(d, keys) ==
    IF keys = {} THEN 0
    ELSE LET k == CHOOSE k \in keys : TRUE
         IN (d[k][1] * target_time) \div d[k][2] + SumScaled(d, keys \ {k})
\* p is the arithmetic mean of the values of d, in lowest terms
IsMeanOf(p, d) ==
    /\ p[1] * target_time * Cardinality(DOMAIN d) = p[2] * SumScaled(d, DOMAIN d)
    /\ p[2] > 0
    /\ \A g \in 2..p[2] : ~(p[1] % g = 0 /\ p[2] % g = 0)

\* C1: after update_status has saved the experiment record for a job-update
\* event of a child, the stored status is the status of highest precedence
\* (ERROR, CANCELED, INACTIVE, QUEUED, RUNNING, SUCCESS) present in the stored
\* per-child status map.
C1_StatusByPrecedence ==
    lastSave = "update_status"
    => expDb.status = PrecedenceRule(expDb.per_sim_status)

\* the children are {CANCELED, QUEUED} and the experiment is CANCELED
C1_Witness ==
    /\ lastSave = "update_status"
    /\ Range(expDb.per_sim_status) = {CANCELED, QUEUED}
    /\ expDb.status = CANCELED

\* C2 (as claimed): with every child registered before the first update,
\* once no update_status handler is in flight the experiment's per-child
\* maps hold the last handled status and progress of every child that
\* reported.
C2_NoLostUpdate ==
    (/\ \A c \in Sims : handler[c].pc = "idle"
     /\ ~lateRegistration)
    => \A c \in Sims :
         reported[c].seen
         => /\ c \in DOMAIN expDb.per_sim_status
            /\ expDb.per_sim_status[c] = reported[c].status
            /\ expDb.per_sim_progress[c] = reported[c].progress

\* C3: in every state with at least one child registered, the stored status
\* and progress of the experiment are the precedence rule and the mean of
\* its stored per-child maps, also right after a new child was added at
\* INACTIVE / 0; before the first child the progress is 0.
C3_AggregatesFollowMaps ==
    /\ registered >= 1
       => /\ DOMAIN expDb.per_sim_status = DOMAIN expDb.per_sim_progress
          /\ DOMAIN expDb.per_sim_status # {}
          /\ expDb.status = PrecedenceRule(expDb.per_sim_status)
          /\ IsMeanOf(expDb.progress, expDb.per_sim_progress)
    /\ registered = 0 => expDb.progress = Zero

\* a child was added after another child had reported RUNNING
C3_Witness ==
    /\ lastSave = "simulation_runner"
    /\ registered = 2
    /\ lateRegistration
    /\ reported[1].seen
    /\ reported[1].status = RUNNING
    /\ expDb.per_sim_status[2] = INACTIVE

\* ======================================================================
\* Properties of the requests (SpecCreate, SpecExpand)
\* ======================================================================
\* C14 (as claimed): when cancel_experiment has run, it did not fail and it
\* attempted to cancel the job of every child simulation the experiment had;
\* the children whose cancel raised were logged, the others' jobs canceled.
C14_CancelAttemptsEveryChild ==
    cancelExp.pc = "done"
    => /\ ~cancelExp.raised
       /\ cancelExp.attempted = cancelExp.children

\* C15 (as claimed): when run_experiment has failed, no simulation and no job
\* created by the request remains.
C15_FailedExperimentLeavesNothing ==
    (req.kind = "experiment" /\ req.pc = "failed")
    => /\ Len(store.simulations) = 0
       /\ Len(store.jobs) = 0

\* C16 (as claimed): when simulation_runner has failed after its job was
\* created (saving the job_id or dispatching the task failed), every job that
\* exists is referenced by a simulation and was dispatched.
C16_NoOrphanedJob ==
    (req.pc = "failed" /\ req.error \in {"save simulation", "delay"})
    => \A j \in 1..Len(store.jobs) :
         /\ \E sim \in 1..Len(store.simulations) : store.simulations[sim].job_id = j
         /\ j \in Elems(store.queue)

RunTimeAbsent ==
    \A i \in 1..Len(req.config) : Key(req.config[i]) # <<"simulation", "run_time">>
RunTimeNotPositive ==
    \E i \in 1..Len(req.config) :
        /\ Key(req.config[i]) = <<"simulation", "run_time">>
        /\ req.config[i].values[1] <= 0
NothingCreated ==
    /\ store.experiments = 0
    /\ Len(store.simulations) = 0
    /\ Len(store.jobs) = 0
    /\ Len(store.queue) = 0

\* C17: an experiment request whose simulation.run_time is absent, zero or
\* negative is rejected with the invalid-run-time error, and at no point of
\* its handling is an experiment, simulation or job record created or a task
\* dispatched.
C17_InvalidRunTimeRejectedFirst ==
    (req.kind = "experiment" /\ (RunTimeAbsent \/ RunTimeNotPositive))
    => /\ req.pc \in {"start", "rejected"}
       /\ req.pc = "rejected" => req.error = "invalid run time"
       /\ NothingCreated

\* a request without run_time was rejected
C17_Witness ==
    /\ req.kind = "experiment"
    /\ RunTimeAbsent
    /\ req.pc = "rejected"
    /\ req.error = "invalid run time"
    /\ NothingCreated

\* the product of the lengths of the list-valued parameters from entry i on,
\* a list shorter than atLeast counting as 1
RECURSIVE LengthProduct(_, _, _)
LengthProduct(doc, i, atLeast) ==
    IF i > Len(doc) THEN 1
    ELSE (IF doc[i].list /\ Len(doc[i].values) >= atLeast
          THEN Len(doc[i].values) ELSE 1)
         * LengthProduct(doc, i + 1, atLeast)

Expanded == req.pc = "createExperiment"

\* C18 (as claimed): the number of concrete configurations is the product of
\* the lengths of the list-valued parameters of length at least 2; lists of
\* length 0 or 1 and scalars contribute a factor of 1.
C18_CountIsProductOfLongLists ==
    Expanded => Len(req.configs) = LengthProduct(req.config, 1, 2)

\* the document without its entry i
Without(doc, i) == SubSeq(doc, 1, i - 1) \o SubSeq(doc, i + 1, Len(doc))

\* C19 (as claimed): a list of length 0 leaves the number of configurations
\* as it is without that parameter, at least one configuration is produced,
\* and the parameter is unassigned in every configuration; a list of length
\* 1 assigns its element in every configuration.
C19_EmptyListDoesNotCollapse ==
    Expanded
    => /\ Len(req.configs) >= 1
       /\ \A i \in 1..Len(req.config) :
            LET e == req.config[i]
            IN /\ (e.list /\ Len(e.values) = 0)
                  => /\ Len(req.configs) = Len(Expand(Without(req.config, i)).configs)
                     /\ \A k \in 1..Len(req.configs) : Key(e) \notin DOMAIN req.configs[k]
               /\ (e.list /\ Len(e.values) = 1)
                  => \A k \in 1..Len(req.configs) :
                       /\ Key(e) \in DOMAIN req.configs[k]
                       /\ req.configs[k][Key(e)] = e.values[1]

\* C20: the configurations are the cartesian product of the list-valued
\* parameters in document order, the last-declared cycling fastest: there
\* are as many as the product of the lists' lengths, configuration k assigns
\* every parameter of the document, a list-valued one its value at the
\* position that k has in that order, a scalar one its value.
C20_CartesianOrder ==
    Expanded
    => /\ Len(req.configs) = LengthProduct(req.config, 1, 0)
       /\ \A k \in 1..Len(req.configs) :
            /\ DOMAIN req.configs[k] = {Key(req.config[i]) : i \in 1..Len(req.config)}
            /\ \A i \in 1..Len(req.config) :
                 LET e == req.config[i]
                     stride == LengthProduct(req.config, i + 1, 0)
                 IN req.configs[k][Key(e)] =
                        IF e.list
                        THEN e.values[(((k - 1) \div stride) % Len(e.values)) + 1]
                        ELSE e.values[1]

\* A.x = [1, 2, 3] declared before B.y = [1, 2], with a scalar A.z: six
\* configurations, B.y changing from the first to the second
C20_Witness ==
    /\ Expanded
    /\ Len(req.config) = 4
    /\ Key(req.config[2]) = <<"A", "x">> /\ Len(req.config[2].values) = 3
    /\ Key(req.config[3]) = <<"A", "z">> /\ ~req.config[3].list
    /\ Key(req.config[4]) = <<"B", "y">> /\ Len(req.config[4].values) = 2
    /\ Len(req.configs) = 6
    /\ req.configs[1][<<"B", "y">>] = 1
    /\ req.configs[2][<<"B", "y">>] = 2
    /\ req.configs[2][<<"A", "x">>] = 1
    /\ req.configs[3][<<"A", "x">>] = 2

\* a parameter whose configured value is a list of more than one value
IsExperimental(e) == e.list /\ Len(e.values) > 1

\* C21: the experimental variables recorded are exactly the parameters of
\* the document whose value is a list of length greater than 1, in document
\* order, each with its module, parameter and full list of values; scalars
\* and lists of length 0 or 1 are not recorded.
C21_ExperimentalVariables ==
    Expanded
    => LET expected == SelectSeq(req.config, IsExperimental)
       IN /\ Len(req.experimental_variables) = Len(expected)
          /\ \A i \in 1..Len(expected) :
               /\ req.experimental_variables[i].module = expected[i].module
               /\ req.experimental_variables[i].parameter = expected[i].parameter
               /\ req.experimental_variables[i].values = expected[i].values

\* A.z = [1, 2] declared before A.x = [1] and B.y = [1, 2, 3]: the variables
\* are A.z and B.y, in that order
C21_Witness ==
    /\ Expanded
    /\ Len(req.config) = 4
    /\ Key(req.config[2]) = <<"A", "z">> /\ req.config[2].values = <<1, 2>>
    /\ Key(req.config[3]) = <<"A", "x">> /\ req.config[3].list
    /\ Len(req.config[3].values) = 1
    /\ Key(req.config[4]) = <<"B", "y">> /\ req.config[4].values = <<1, 2, 3>>
    /\ Len(req.experimental_variables) = 2
    /\ Key(req.experimental_variables[1]) = <<"A", "z">>
    /\ Key(req.experimental_variables[2]) = <<"B", "y">>

\* ----------------------------------------------------- run names (SpecNames)
Named == req.pc = "named"
\* the repeat index and the concrete configuration of the n-th run
RunNumber(n) == (n - 1) % req.runs_per_config
ConfigOf(n) == req.configs[((n - 1) \div req.runs_per_config) + 1]
\* the run's (run index, experimental-variable values) tuple
RunTuple(n) ==
    <<RunNumber(n),
      [i \in 1..Len(req.experimental_variables) |->
          ConfigOf(n)[Key(req.experimental_variables[i])]]>>

\* C22 (as claimed): any two runs of the request whose (run index,
\* experimental-variable values) tuples differ have different names.
C22_NamesInjective ==
    Named
    => \A m, n \in 1..Len(req.names) :
         RunTuple(m) # RunTuple(n) => req.names[m] # req.names[n]

RECURSIVE Pow10(_)
Pow10(k) == IF k = 0 THEN 1 ELSE 10 * Pow10(k - 1)
\* floor(1 + log10(runs)): the w with 10^(w-1) <= runs < 10^w
IndexWidth(runs) == CHOOSE w \in 1..runs : Pow10(w - 1) <= runs /\ runs < Pow10(w)
\* the decimal digits of n, zero-padded to the width
IndexField(n, width) == [p \in 1..width |-> Digit((n \div Pow10(width - p)) % 10)]
\* '-<module>.<parameter>-<value>' of the first k experimental variables
RECURSIVE SegmentsUpTo(_, _)
SegmentsUpTo(n, k) ==
    IF k = 0 THEN <<>>
    ELSE LET ev == req.experimental_variables[k]
         IN SegmentsUpTo(n, k - 1)
            \o <<"-">> \o ev.module \o <<".">> \o ev.parameter \o <<"-">>
            \o str(ConfigOf(n)[Key(ev)])

\* C23: there is one name per configuration and repeat index, and the name
\* of a run is the base name, '-run-', the repeat index zero-padded to width
\* floor(1 + log10(runs_per_config)), and for each experimental variable in
\* discovery order '-<module>.<parameter>-<value>' with the value of the
\* run's configuration.
C23_NameFormat ==
    Named
    => /\ Len(req.names) = Len(req.configs) * req.runs_per_config
       /\ \A n \in 1..Len(req.names) :
            req.names[n] =
                req.name \o <<"-", "r", "u", "n", "-">>
                \o IndexField(RunNumber(n), IndexWidth(req.runs_per_config))
                \o SegmentsUpTo(n, Len(req.experimental_variables))

\* ten repeats of two configurations: the last run of the first is
\* 'e-run-09-A.x-1'
C23_Witness ==
    /\ Named
    /\ req.runs_per_config = 10
    /\ Len(req.names) = 20
    /\ req.names[10] = <<"e", "-", "r", "u", "n", "-", "0", "9",
                         "-", "A", ".", "x", "-", "1">>

\* C24: when run_experiment has returned for C configurations and R runs
\* per configuration, there are exactly C*R simulations, all linked to the
\* experiment, and exactly C*R jobs, all dispatched; the result lists all of
\* the jobs, every simulation records one job and no two the same.
C24_ChildrenAndJobs ==
    (req.kind = "experiment" /\ req.pc = "returned")
    => LET total == Len(req.configs) * req.runs_per_config
       IN /\ req.runs_per_config >= 1
          /\ Len(store.simulations) = total
          /\ Len(store.jobs) = total
          /\ store.component_simulations = [i \in 1..total |-> i]
          /\ \A i \in 1..total : store.simulations[i].in_experiment
          /\ Len(req.jobs) = total
          /\ Elems(req.jobs) = 1..total
          /\ Elems(store.queue) = 1..total
          /\ \A i \in 1..total : store.simulations[i].job_id \in 1..total
          /\ \A i, j \in 1..total :
               store.simulations[i].job_id = store.simulations[j].job_id => i = j

\* three configurations run twice each: six simulations and six jobs
C24_Witness ==
    /\ req.kind = "experiment"
    /\ req.pc = "returned"
    /\ Len(req.configs) = 3
    /\ req.runs_per_config = 2
    /\ Len(store.simulations) = 6
    /\ Len(req.jobs) = 6

\* ------------------------------------ update_status, per event (SpecAgg)
\* a job-update event of child c has been handled
JobUpdated(c) == jobs[c] # NewJob

\* C25 (as claimed): once a job-update event of a child's job has been
\* handled, the simulation's progress is 100 * current / total of the job's
\* progress when total > 0 and 0 when it is not, and the simulation's status
\* is the job's: the handler did not fail.
C25_ProgressGuardsZeroTotal ==
    \A c \in Sims :
        JobUpdated(c)
        => /\ simDb[c].progress =
                  IF jobs[c].total > 0
                  THEN Rat(100 * jobs[c].current, jobs[c].total)
                  ELSE Zero
           /\ simDb[c].status = jobs[c].status

\* C26: the save that ends update_status for an event of child c stores the
\* experiment with c's entry of the per-child progress map set to c's new
\* progress and with the progress equal to the arithmetic mean of all values
\* of that map; an experiment without children has progress 0.
C26_MeanAfterUpdate ==
    /\ [](Len(expDb.component_simulations) = 0 /\ lastSave = "createExperiment"
          => expDb.progress = Zero)
    /\ [][\A c \in Sims :
            (handler[c].pc = "save" /\ handler'[c].pc = "idle")
            => /\ c \in DOMAIN expDb'.per_sim_progress
               /\ expDb'.per_sim_progress[c] = handler[c].progress
               /\ IsMeanOf(expDb'.progress, expDb'.per_sim_progress)
               /\ lastSave' = "update_status"]_vars

\* two children at 50 and 100: the experiment is at 75
C26_Witness ==
    /\ lastSave = "update_status"
    /\ DOMAIN expDb.per_sim_progress = {1, 2}
    /\ expDb.per_sim_progress[1] = Rat(50, 1)
    /\ expDb.per_sim_progress[2] = Rat(100, 1)
    /\ expDb.progress = Rat(75, 1)

\* C27 (as claimed): once a job-update event of a child's job has been
\* handled and its handler has finished, the simulation's stored status is
\* the status of the job, and, when this child's was the only event so far
\* and every child was registered before it, so is the experiment's
\* per-child status entry.
C27_StatusMirrorsJob ==
    \A c \in Sims :
        (JobUpdated(c) /\ handler[c].pc = "idle")
        => /\ simDb[c].status = jobs[c].status
           /\ (/\ lastSave = "update_status"
               /\ ~lateRegistration
               /\ \A d \in Sims \ {c} : ~JobUpdated(d))
              => expDb.per_sim_status[c] = jobs[c].status

\* ------------------------------------------- summaries (SpecSummary)
SummaryChildIds == 1..Len(req.experiment.children)
SummaryGroups == experimental_group_params(req.experiment.meta.experimental_variables)
MatchingGroups(c) ==
    {g \in 1..Len(SummaryGroups) :
        GroupMatches(req.experiment.children[c], SummaryGroups[g])}

\* C28 (as claimed): the experiment summary that is returned gives every
\* child the index of the first combination, in Cartesian-product order,
\* that its configuration matches; a child that matches no combination makes
\* the summary an integrity error, so no returned group map holds an index
\* that is not one of a combination.
C28_UnmatchedChildSurfaced ==
    (req.kind = "summary" /\ req.pc = "json")
    => \A c \in SummaryChildIds :
           /\ c \in DOMAIN req.json["simulation group map"]
           /\ MatchingGroups(c) # {}
           /\ \A g \in MatchingGroups(c) :
                  req.json["simulation group map"][c] + 1 <= g
           /\ req.json["simulation group map"][c] + 1 \in MatchingGroups(c)

\* the times at which some child has statistics
SummaryTimes ==
    UNION {{f.time : f \in Elems(req.experiment.children[c].folders)} \cap Nat :
              c \in SummaryChildIds}

\* C29 (as claimed): rendering the summary as a table raises nothing; when
\* there are children and time steps, the table ends with one row per time
\* step of the union of the children's time steps, in ascending order, each
\* holding the time and the children's cells.
C29_TableRendered ==
    (req.kind = "summary" /\ req.pc = "csv")
    => /\ req.csv.raised = "none"
       /\ (SummaryTimes # {} /\ SummaryChildIds # {})
          => LET rows == req.csv.rows
                 n == Cardinality(SummaryTimes)
                 data == SubSeq(rows, Len(rows) - n + 1, Len(rows))
             IN  /\ Len(rows) >= n
                 /\ {data[k][1] : k \in 1..n} = SummaryTimes
                 /\ \A k \in 1..(n - 1) : data[k][1] < data[k + 1][1]
                 /\ \A k \in 1..n : Len(data[k]) = 1 + 2 * Len(req.experiment.children)

\* ------------------------------------------- listing (SpecFilter)
\* the range of a filter as the claim reads it: a bound that is null
\* constrains nothing
InRange(v, range) ==
    /\ range[1].null \/ range[1].n <= v
    /\ range[2].null \/ v <= range[2].n

\* C30 (as claimed): among the simulations that the other criteria of the
\* listing admit, those listed are exactly those whose configured value is
\* in the range of every filter.
C30_RangeFilterExact ==
    (req.kind = "list" /\ req.pc = "listed")
    => req.found =
           {s \in list(req.includeArchived, req.experiments, <<>>) :
               \A i \in 1..Len(req.config) :
                   InRange(s.nli.config[req.config[i].module][req.config[i].key],
                           req.config[i].range)}

\* ------------------------------- registration and dispatch (SpecAgg)
\* the experiment record exp knows child c
Registered(exp, c) ==
    /\ c \in Elems(exp.component_simulations)
    /\ c \in DOMAIN exp.per_sim_progress
    /\ c \in DOMAIN exp.per_sim_status

\* C32 (as claimed): a child whose executor was dispatched has been
\* registered, its simulation record exists and holds its job id; and the
\* experiment record that update_status loads for an event of a child holds
\* the child in its component list and in its per-child maps.
C32_RegisteredBeforeDispatch ==
    \A c \in Sims :
        /\ c <= dispatched
           => /\ c <= registered
              /\ simDb[c].exists
              /\ simDb[c].job_id = c
        /\ handler[c].pc = "save"
           => /\ simDb[c].exists
              /\ Registered(handler[c].exp, c)

\* the creation request has registered and dispatched every child and no
\* update_status handler is in flight
CreationAndEventsFinished ==
    /\ registered = NumSims
    /\ dispatched = NumSims
    /\ \A c \in Sims : handler[c].pc = "idle"

\* C34 (as claimed): the save that registers a child leaves the entries of
\* the children registered before as they are stored; and when the creation
\* request and the pending handlers have finished, the experiment's maps
\* hold an entry for every child, with the status and progress last handled
\* for it (INACTIVE and 0 for a child without a handled update).
C34_RegistrationKeepsReports ==
    /\ [][registered' = registered + 1
          => \A c \in DOMAIN expDb.per_sim_status :
                 /\ Registered(expDb', c)
                 /\ expDb'.per_sim_status[c] = expDb.per_sim_status[c]
                 /\ expDb'.per_sim_progress[c] = expDb.per_sim_progress[c]]_vars
    /\ [](CreationAndEventsFinished
          => \A c \in Sims :
                 /\ Registered(expDb, c)
                 /\ expDb.per_sim_status[c] = reported[c].status
                 /\ expDb.per_sim_progress[c] = reported[c].progress)

====
